---- MODULE Spec2Model ----
(***************************************************************************)
(* Model of the match ingestion and retrieval engine of SoupHeatMap        *)
(* (src-tauri/src/json_processor.rs): load_json_files_with_progress,       *)
(* load_json_files and the process-wide MATCH_INDEX, get_match_by_id and   *)
(* get_multiple_match_details_batched with its worker threads.             *)
(*                                                                         *)
(* A directory tree is a sequence of candidate (.json) files in WalkDir    *)
(* order; a file either carries a match identifier or is bad: it cannot be *)
(* read or it cannot be parsed, which the code treats alike.  A path is    *)
(* <<root, position>>; a file that is removed leaves its position empty    *)
(* and the scan passes over it.                                            *)
(***************************************************************************)
EXTENDS Integers, Sequences, FiniteSets, TLC

\* ------------------------------------------------------------------ bounds
MaxFiles == 2      \* files of root rA in the initial states of Spec
MaxIds == 2        \* identifiers of one batch call
MaxBatch == 2      \* batch_size of one batch call
MaxBig == 21       \* files of root rA in the initial states of SpecIngest

\* ------------------------------------------------------- program constants
ProgressEvery == 10

\* ------------------------------------------------------------------ values
Ids == {"m1", "m2"}
Bad == "bad"
Contents == Ids \cup {Bad}
Gone == "gone"     \* the content of a path whose file has been removed
Roots == {"rA", "rB"}
NoDir == <<"nodir">>
NoPath == <<"", 0>>

SeqsUpTo(n, S) == UNION {[1..k -> S] : k \in 0..n}

Min(S) == CHOOSE x \in S : \A y \in S : x <= y
Max(S) == CHOOSE x \in S : \A y \in S : x >= y

\* Result<_, String> values: errors are distinguished by their message.
NoErr == [kind |-> "", inner |-> "", arg |-> ""]
ErrFolder(folder_path) ==
    [kind |-> "Folder does not exist", inner |-> "", arg |-> folder_path]
ErrNotFound(match_id) ==
    [kind |-> "Match not found with ID", inner |-> "", arg |-> match_id]
ErrFailed(e) ==
    [kind |-> "Failed to load match detail", inner |-> e.kind, arg |-> e.arg]
ErrPanicked ==
    [kind |-> "Thread panicked while loading match details", inner |-> "", arg |-> ""]
ErrMissing ==
    [kind |-> "Missing result from batch processing", inner |-> "", arg |-> ""]

NoDetail == [match_id |-> "", path |-> NoPath]
NoRes == [ok |-> FALSE, detail |-> NoDetail, err |-> NoErr]
OkRes(d) == [ok |-> TRUE, detail |-> d, err |-> NoErr]
ErrRes(e) == [ok |-> FALSE, detail |-> NoDetail, err |-> e]

\* ------------------------------------------------------------- file system
\* Path::exists
PathExists(d, folder_path) == d[folder_path] # NoDir

\* WalkDir::new(path).follow_links(true) filtered to the .json candidates
WalkDir(d, folder_path) ==
    IF PathExists(d, folder_path)
    THEN LET Present(file_path) == d[file_path[1]][file_path[2]] # Gone
         IN SelectSeq([i \in 1..Len(d[folder_path]) |-> <<folder_path, i>>],
                      Present)
    ELSE <<>>

\* fs::read_to_string followed by serde_json::from_str::<VctMatchData>:
\* the match identifier of the parsed document, or "" when either step fails.
ReadAndParse(d, file_path) ==
    IF /\ file_path[1] \in Roots
       /\ PathExists(d, file_path[1])
       /\ file_path[2] \in 1..Len(d[file_path[1]])
       /\ d[file_path[1]][file_path[2]] \in Ids
    THEN d[file_path[1]][file_path[2]]
    ELSE ""

\* parse_match_summary / parse_match_detail: every field is a function of the
\* path (region) and of the document (identifier, map, players, kills).
parse_match_summary(file_path, data) == [match_id |-> data, path |-> file_path]
parse_match_detail(file_path, data) == [match_id |-> data, path |-> file_path]

\* ---------------------------------------------------------------- ingestion
\* the progress condition of load_json_files_with_progress
\* faulty variant: the first file is not reported
ShouldReportNoFirst(processed, total_files) ==
    processed % ProgressEvery = 0 \/ processed = total_files
ShouldReport(processed, total_files) ==
    \/ processed % ProgressEvery = 0
    \/ processed = total_files
    \/ processed = 1

\* one iteration of the file loop: the summaries after processing file_path
\* faulty variant: a summary is pushed for a file that failed too
PushSummaryAlways(d, matches, file_path) ==
    Append(matches, parse_match_summary(file_path, ReadAndParse(d, file_path)))
PushSummary(d, matches, file_path) ==
    IF ReadAndParse(d, file_path) # ""
    THEN Append(matches, parse_match_summary(file_path, ReadAndParse(d, file_path)))
    ELSE matches

\* ------------------------------------------------------------- match index
EmptyMap == [m \in Ids |-> NoPath]

\* faulty variant: an identifier already in the index keeps its file
RECURSIVE InsertAllKeepFirst(_, _, _)
InsertAllKeepFirst(d, files, index) ==
    IF files = <<>> THEN index
    ELSE LET file_path == Head(files)
             id == ReadAndParse(d, file_path)
         IN InsertAllKeepFirst(d, Tail(files),
                      IF id # "" /\ index[id] = NoPath
                      THEN [index EXCEPT ![id] = file_path] ELSE index)
RECURSIVE InsertAll(_, _, _)
InsertAll(d, files, index) ==
    IF files = <<>> THEN index
    ELSE LET file_path == Head(files)
             id == ReadAndParse(d, file_path)
         IN InsertAll(d, Tail(files),
                      IF id # "" THEN [index EXCEPT ![id] = file_path] ELSE index)

\* the index-building loop of load_json_files
BuildIndex(d, folder_path) == InsertAll(d, WalkDir(d, folder_path), EmptyMap)

\* MATCH_INDEX: None, or Some(map); live is FALSE while the map has been
\* dropped by an assignment in progress and the new value is not yet stored.
IndexNone == [some |-> FALSE, live |-> TRUE, map |-> EmptyMap]
IndexSome(index) == [some |-> TRUE, live |-> TRUE, map |-> index]

\* ------------------------------------------------------------------ lookup
\* the fallback scan of get_match_by_id
FallbackScan(d, folder_path, match_id) ==
    IF ~PathExists(d, folder_path) THEN ErrRes(ErrFolder(folder_path))
    ELSE LET hits == {i \in 1..Len(d[folder_path]) :
                        ReadAndParse(d, <<folder_path, i>>) = match_id}
         IN IF hits = {} THEN ErrRes(ErrNotFound(match_id))
            ELSE OkRes(parse_match_detail(<<folder_path, Min(hits)>>, match_id))

NoRef == [held |-> FALSE, path |-> NoPath, dangling |-> FALSE]

\* `if let Some(ref index) = MATCH_INDEX { if let Some(file_path) = index.get(..)`:
\* the reference into the map that the thread holds afterwards.
IndexGet(slot, match_id) ==
    IF ~slot.some THEN NoRef
    ELSE IF ~slot.live THEN [held |-> TRUE, path |-> NoPath, dangling |-> TRUE]
    ELSE IF slot.map[match_id] = NoPath THEN NoRef
    ELSE [held |-> TRUE, path |-> slot.map[match_id], dangling |-> FALSE]

\* the outcomes of get_match_by_id after a use of a reference into a released
\* map (undefined behaviour): any file may be read, or the lookup may fall
\* through to the scan.
UBOutcomes(d, folder_path, match_id) ==
    {FallbackScan(d, folder_path, match_id)} \cup
    {OkRes(parse_match_detail(<<r, i>>, ReadAndParse(d, <<r, i>>))) :
        <<r, i>> \in {p \in UNION {{<<q, j>> : j \in 1..Len(d[q])} :
                                     q \in {q \in Roots : PathExists(d, q)}} :
                      ReadAndParse(d, p) # ""}}

\* the result of get_match_by_id once the index step is over, for a thread
\* whose reference is not dangling
\* faulty variant: an indexed file that cannot be read ends the lookup
ResultAfterIndexNoFallback(d, ref, folder_path, match_id) ==
    IF ref.held
    THEN IF ReadAndParse(d, ref.path) # ""
         THEN OkRes(parse_match_detail(ref.path, ReadAndParse(d, ref.path)))
         ELSE ErrRes(ErrNotFound(match_id))
    ELSE FallbackScan(d, folder_path, match_id)
ResultAfterIndex(d, ref, folder_path, match_id) ==
    IF ref.held /\ ReadAndParse(d, ref.path) # ""
    THEN OkRes(parse_match_detail(ref.path, ReadAndParse(d, ref.path)))
    ELSE FallbackScan(d, folder_path, match_id)

\* ------------------------------------------------------------------ threads
Main == <<"main", 0>>
Aux == <<"aux", 0>>
Unit(global_index) == <<"unit", global_index>>
Units == {Unit(i) : i \in 0..(MaxIds - 1)}
Threads == {Main, Aux} \cup Units

IdleLk == [pc |-> "idle", folder_path |-> "", match_id |-> "", ref |-> NoRef,
           res |-> NoRes]
StartLk(folder_path, match_id) ==
    [pc |-> "start", folder_path |-> folder_path, match_id |-> match_id,
     ref |-> NoRef, res |-> NoRes]
Running(l) == l.pc \in {"start", "deref"}
\* faulty variant: a unit that faulted never counts as finished
FinishedOnlyDone(l) == l.pc = "done"
Finished(l) == l.pc \in {"done", "panicked"}

\* ------------------------------------------------------------------- state
VARIABLES
    disk,         \* root -> NoDir or the sequence of file contents
    MATCH_INDEX,  \* the static mut Option<HashMap<String, PathBuf>>
    pc,           \* position of the calling thread
    op,           \* the call in progress: name and arguments
    ing,          \* locals of load_json_files(_with_progress)
    lk,           \* thread -> state of its get_match_by_id call
    bt,           \* locals of get_multiple_match_details_batched
    ret           \* the last call returned: arguments, value, callbacks

vars == <<disk, MATCH_INDEX, pc, op, ing, lk, bt, ret>>

NoOp == [name |-> "", folder_path |-> "", match_id |-> "", match_ids |-> <<>>,
         batch_size |-> 0]
NoIng == [all_files |-> <<>>, matches |-> <<>>, processed |-> 0, cbs |-> <<>>,
          index |-> EmptyMap]
NoBt == [batch_start |-> 0, spawned |-> 0, joined |-> 0, batch_results |-> <<>>,
         results |-> <<>>, cbs |-> <<>>, overtaken |-> FALSE]
NoRet == [op |-> NoOp, ok |-> FALSE, err |-> NoErr, detail |-> NoDetail,
          list |-> <<>>, cbs |-> <<>>, total |-> 0, fetched |-> <<>>,
          overtaken |-> FALSE]

\* ------------------------------------------------------------- initial state
Disks ==
    {[r \in Roots |-> IF r = "rA" THEN a ELSE b] :
        a \in SeqsUpTo(MaxFiles, Contents), b \in {NoDir, <<"m1">>}}

InitRest ==
    /\ MATCH_INDEX = IndexNone
    /\ pc = "idle"
    /\ op = NoOp
    /\ ing = NoIng
    /\ lk = [t \in Threads |-> IdleLk]
    /\ bt = NoBt
    /\ ret = NoRet

Init == disk \in Disks /\ InitRest

\* ------------------------------------------------------------ the caller
\* the command handler hands the returned value to the presentation layer;
\* the calling thread takes its next call after that
Deliver ==
    /\ pc = "idle"
    /\ ret # NoRet
    /\ ret' = NoRet
    /\ UNCHANGED <<disk, MATCH_INDEX, pc, op, ing, lk, bt>>

\* ------------------------------------------- load_json_files(_with_progress)
\* lines 210-233: the root check and the scan that collects all_files
\* faulty variant: a failed root check resets the index
IngestStartClearsIndex(name, folder_path) ==
    /\ pc = "idle"
    /\ ret = NoRet
    /\ LET o == [NoOp EXCEPT !.name = name, !.folder_path = folder_path]
       IN IF ~PathExists(disk, folder_path)
          THEN /\ ret' = [NoRet EXCEPT !.op = o, !.err = ErrFolder(folder_path)]
               /\ MATCH_INDEX' = IndexNone
               /\ UNCHANGED <<pc, op, ing>>
          ELSE /\ pc' = "ingest"
               /\ op' = o
               /\ ing' = [NoIng EXCEPT !.all_files = WalkDir(disk, folder_path)]
               /\ ret' = NoRet
               /\ UNCHANGED MATCH_INDEX
    /\ UNCHANGED <<disk, lk, bt>>
IngestStart(name, folder_path) ==
    /\ pc = "idle"
    /\ ret = NoRet
    /\ LET o == [NoOp EXCEPT !.name = name, !.folder_path = folder_path]
       IN IF ~PathExists(disk, folder_path)
          THEN /\ ret' = [NoRet EXCEPT !.op = o, !.err = ErrFolder(folder_path)]
               /\ UNCHANGED <<pc, op, ing>>
          ELSE /\ pc' = "ingest"
               /\ op' = o
               /\ ing' = [NoIng EXCEPT !.all_files = WalkDir(disk, folder_path)]
               /\ ret' = NoRet
    /\ UNCHANGED <<disk, MATCH_INDEX, lk, bt>>

LoadWithProgressCall(folder_path) ==
    IngestStart("load_json_files_with_progress", folder_path)

LoadJsonFilesCall(folder_path) == IngestStart("load_json_files", folder_path)

\* lines 236-262: one iteration of the loop over all_files
IngestFile ==
    /\ pc = "ingest"
    /\ ing.processed < Len(ing.all_files)
    /\ LET file_path == ing.all_files[ing.processed + 1]
           total_files == Len(ing.all_files)
           processed == ing.processed + 1
       IN ing' = [ing EXCEPT
                    !.matches = PushSummary(disk, @, file_path),
                    !.processed = processed,
                    !.cbs = IF ShouldReport(processed, total_files)
                            THEN Append(@, <<processed, total_files>>) ELSE @]
    /\ UNCHANGED <<disk, MATCH_INDEX, pc, op, lk, bt, ret>>

\* line 264 in a direct call
LoadWithProgressReturn ==
    /\ pc = "ingest"
    /\ op.name = "load_json_files_with_progress"
    /\ ing.processed = Len(ing.all_files)
    /\ ret' = [NoRet EXCEPT !.op = op, !.ok = TRUE, !.list = ing.matches,
                            !.cbs = ing.cbs, !.total = Len(ing.all_files)]
    /\ pc' = "idle"
    /\ op' = NoOp
    /\ ing' = NoIng
    /\ UNCHANGED <<disk, MATCH_INDEX, lk, bt>>

\* lines 275-292: the second scan, into the local index
LoadBuildIndex ==
    /\ pc = "ingest"
    /\ op.name = "load_json_files"
    /\ ing.processed = Len(ing.all_files)
    /\ ing' = [ing EXCEPT !.index = BuildIndex(disk, op.folder_path)]
    /\ pc' = "store"
    /\ UNCHANGED <<disk, MATCH_INDEX, op, lk, bt, ret>>

\* a reference into the map of MATCH_INDEX dangles once the map is dropped
Dangle(l) ==
    IF l.pc = "deref" /\ l.ref.held THEN [l EXCEPT !.ref.dangling = TRUE] ELSE l

\* line 296, first half: the assignment drops the old value in place
LoadDropOld ==
    /\ pc = "store"
    /\ pc' = "write"
    /\ IF MATCH_INDEX.some
       THEN /\ MATCH_INDEX' = [MATCH_INDEX EXCEPT !.live = FALSE]
            /\ lk' = [t \in Threads |-> Dangle(lk[t])]
       ELSE UNCHANGED <<MATCH_INDEX, lk>>
    /\ UNCHANGED <<disk, op, ing, bt, ret>>

\* line 296, second half, and line 299
\* faulty variant: the new entries are added to the map already stored
LoadWriteNewMerge ==
    /\ pc = "write"
    /\ MATCH_INDEX' = IndexSome([id \in Ids |->
                           IF ing.index[id] # NoPath THEN ing.index[id]
                           ELSE MATCH_INDEX.map[id]])
    /\ ret' = [NoRet EXCEPT !.op = op, !.ok = TRUE, !.list = ing.matches,
                            !.cbs = ing.cbs, !.total = Len(ing.all_files)]
    /\ pc' = "idle"
    /\ op' = NoOp
    /\ ing' = NoIng
    /\ UNCHANGED <<disk, lk, bt>>
LoadWriteNew ==
    /\ pc = "write"
    /\ MATCH_INDEX' = IndexSome(ing.index)
    /\ ret' = [NoRet EXCEPT !.op = op, !.ok = TRUE, !.list = ing.matches,
                            !.cbs = ing.cbs, !.total = Len(ing.all_files)]
    /\ pc' = "idle"
    /\ op' = NoOp
    /\ ing' = NoIng
    /\ UNCHANGED <<disk, lk, bt>>

\* ---------------------------------------------------------- get_match_by_id
\* lines 306-307: read MATCH_INDEX and look the identifier up
LookupIndex(t) ==
    /\ lk[t].pc = "start"
    /\ lk' = [lk EXCEPT ![t].pc = "deref",
                        ![t].ref = IndexGet(MATCH_INDEX, lk[t].match_id)]
    /\ UNCHANGED <<disk, MATCH_INDEX, pc, op, ing, bt, ret>>

\* lines 308-343: read the indexed file, else scan (bt.overtaken records that
\* a unit of a batch completed before a unit spawned earlier)
LookupFinish(t) ==
    /\ lk[t].pc = "deref"
    /\ \E res \in IF lk[t].ref.dangling
                  THEN UBOutcomes(disk, lk[t].folder_path, lk[t].match_id)
                  ELSE {ResultAfterIndex(disk, lk[t].ref, lk[t].folder_path,
                                         lk[t].match_id)} :
          lk' = [lk EXCEPT ![t].pc = "done", ![t].res = res]
    /\ bt' = IF t \in Units /\ \E u \in Units : u[2] < t[2] /\ Running(lk[u])
             THEN [bt EXCEPT !.overtaken = TRUE] ELSE bt
    /\ UNCHANGED <<disk, MATCH_INDEX, pc, op, ing, ret>>

\* a direct call from the calling thread
GetMatchCall(folder_path, match_id) ==
    /\ pc = "idle"
    /\ ret = NoRet
    /\ pc' = "get_match"
    /\ op' = [NoOp EXCEPT !.name = "get_match_by_id", !.folder_path = folder_path,
                          !.match_id = match_id]
    /\ lk' = [lk EXCEPT ![Main] = StartLk(folder_path, match_id)]
    /\ ret' = NoRet
    /\ UNCHANGED <<disk, MATCH_INDEX, ing, bt>>

GetMatchReturn ==
    /\ pc = "get_match"
    /\ lk[Main].pc = "done"
    /\ ret' = [NoRet EXCEPT !.op = op, !.ok = lk[Main].res.ok,
                            !.detail = lk[Main].res.detail, !.err = lk[Main].res.err]
    /\ lk' = [lk EXCEPT ![Main] = IdleLk]
    /\ pc' = "idle"
    /\ op' = NoOp
    /\ UNCHANGED <<disk, MATCH_INDEX, ing, bt>>

\* a unit faults instead of returning (the Err(_) arm of handle.join())
UnitPanic(u) ==
    /\ u \in Units
    /\ Running(lk[u])
    /\ lk' = [lk EXCEPT ![u].pc = "panicked"]
    /\ UNCHANGED <<disk, MATCH_INDEX, pc, op, ing, bt, ret>>

\* ------------------------------------- get_multiple_match_details_batched
None == [some |-> FALSE, res |-> NoRes]
Some(result) == [some |-> TRUE, res |-> result]

\* match_ids.chunks(batch_size): the length of chunk number batch_start
\* faulty variant: the chunk takes every remaining identifier
ChunkLenUncapped(total_matches, batch_size, batch_start) ==
    total_matches - batch_start * batch_size
ChunkLen(total_matches, batch_size, batch_start) ==
    Min({batch_size, total_matches - batch_start * batch_size})

\* line 377: the slot of batch_results a joined result goes to
\* faulty variant: the joined results are stored back to front
BatchSlotReversed(index, batch_start, batch_size, len) ==
    (len - 1) - (index - batch_start * batch_size)
BatchSlot(index, batch_start, batch_size, len) ==
    index - batch_start * batch_size

\* lines 385-395: the loop over batch_results
\* faulty variant: the last error of the chunk is reported
RECURSIVE ProcessBatchResultsLastErr(_, _, _, _)
ProcessBatchResultsLastErr(batch_results, results, cbs, total_matches) ==
    IF batch_results = <<>>
    THEN [results |-> results, cbs |-> cbs, failed |-> FALSE, err |-> NoErr]
    ELSE LET result == Head(batch_results)
             rest == ProcessBatchResultsLastErr(Tail(batch_results), results, cbs,
                                                total_matches)
         IN IF result.some /\ result.res.ok THEN rest
            ELSE IF rest.failed THEN rest
            ELSE [results |-> results, cbs |-> cbs, failed |-> TRUE,
                  err |-> IF result.some THEN ErrFailed(result.res.err)
                          ELSE ErrMissing]
\* faulty variant: the callback runs before the push
RECURSIVE ProcessBatchResultsEarlyCb(_, _, _, _)
ProcessBatchResultsEarlyCb(batch_results, results, cbs, total_matches) ==
    IF batch_results = <<>>
    THEN [results |-> results, cbs |-> cbs, failed |-> FALSE, err |-> NoErr]
    ELSE LET result == Head(batch_results)
         IN IF result.some /\ result.res.ok
            THEN ProcessBatchResultsEarlyCb(
                    Tail(batch_results),
                    Append(results, result.res.detail),
                    Append(cbs, <<Len(results), total_matches>>),
                    total_matches)
            ELSE [results |-> results, cbs |-> cbs, failed |-> TRUE,
                  err |-> IF result.some THEN ErrFailed(result.res.err)
                          ELSE ErrMissing]
RECURSIVE ProcessBatchResults(_, _, _, _)
ProcessBatchResults(batch_results, results, cbs, total_matches) ==
    IF batch_results = <<>>
    THEN [results |-> results, cbs |-> cbs, failed |-> FALSE, err |-> NoErr]
    ELSE LET result == Head(batch_results)
         IN IF result.some /\ result.res.ok
            THEN ProcessBatchResults(
                    Tail(batch_results),
                    Append(results, result.res.detail),
                    Append(cbs, <<Len(results) + 1, total_matches>>),
                    total_matches)
            ELSE [results |-> results, cbs |-> cbs, failed |-> TRUE,
                  err |-> IF result.some THEN ErrFailed(result.res.err)
                          ELSE ErrMissing]

StartChunk(b, batch_start, len) ==
    [b EXCEPT !.batch_start = batch_start, !.spawned = 0, !.joined = 0,
              !.batch_results = [i \in 1..len |-> None]]

\* the call returns.  Units that still run are detached: they finish their
\* get_match_by_id on their own and nobody receives the result, so the model
\* records their state at the return (ret.fetched) and follows them no further.
BatchReturn(ok, list, err, cbs) ==
    /\ ret' = [NoRet EXCEPT
                 !.op = op, !.ok = ok, !.list = list, !.err = err, !.cbs = cbs,
                 !.total = Len(op.match_ids), !.overtaken = bt.overtaken,
                 !.fetched = [i \in 1..Len(op.match_ids) |-> lk[Unit(i - 1)]]]
    /\ lk' = [t \in Threads |-> IF t \in Units THEN IdleLk ELSE lk[t]]
    /\ pc' = "idle"
    /\ op' = NoOp
    /\ bt' = NoBt

\* lines 353-357
BatchCall(folder_path, match_ids, batch_size) ==
    /\ pc = "idle"
    /\ ret = NoRet
    /\ LET o == [NoOp EXCEPT !.name = "get_multiple_match_details_batched",
                             !.folder_path = folder_path,
                             !.match_ids = match_ids, !.batch_size = batch_size]
       IN IF match_ids = <<>>
          THEN /\ ret' = [NoRet EXCEPT !.op = o, !.ok = TRUE]
               /\ UNCHANGED <<pc, op, bt>>
          ELSE /\ pc' = "batch"
               /\ op' = o
               /\ bt' = StartChunk(NoBt, 0, ChunkLen(Len(match_ids), batch_size, 0))
               /\ ret' = NoRet
    /\ UNCHANGED <<disk, MATCH_INDEX, ing, lk>>

\* lines 361-370: spawn the next unit of the chunk
BatchSpawn ==
    /\ pc = "batch"
    /\ bt.spawned < Len(bt.batch_results)
    /\ LET global_index == bt.batch_start * op.batch_size + bt.spawned
       IN lk' = [lk EXCEPT ![Unit(global_index)] =
                    StartLk(op.folder_path, op.match_ids[global_index + 1])]
    /\ bt' = [bt EXCEPT !.spawned = @ + 1]
    /\ UNCHANGED <<disk, MATCH_INDEX, pc, op, ing, ret>>

\* lines 374-382: join the next handle of the chunk
\* faulty variant: the Err arm of join() is ignored and the slot stays None
BatchJoinIgnoresFault ==
    /\ pc = "batch"
    /\ bt.spawned = Len(bt.batch_results)
    /\ bt.joined < Len(bt.batch_results)
    /\ LET index == bt.batch_start * op.batch_size + bt.joined
           slot == BatchSlot(index, bt.batch_start, op.batch_size,
                             Len(bt.batch_results))
       IN /\ Finished(lk[Unit(index)])
          /\ bt' = [bt EXCEPT !.joined = @ + 1,
                              !.batch_results[slot + 1] =
                                  IF lk[Unit(index)].pc = "done"
                                  THEN Some(lk[Unit(index)].res) ELSE None]
    /\ UNCHANGED <<disk, MATCH_INDEX, pc, op, ing, lk, ret>>
BatchJoin ==
    /\ pc = "batch"
    /\ bt.spawned = Len(bt.batch_results)
    /\ bt.joined < Len(bt.batch_results)
    /\ LET index == bt.batch_start * op.batch_size + bt.joined
           slot == BatchSlot(index, bt.batch_start, op.batch_size,
                             Len(bt.batch_results))
       IN /\ Finished(lk[Unit(index)])
          /\ IF lk[Unit(index)].pc = "done"
             THEN /\ bt' = [bt EXCEPT !.joined = @ + 1,
                                      !.batch_results[slot + 1] =
                                          Some(lk[Unit(index)].res)]
                  /\ UNCHANGED <<pc, op, lk, ret>>
             ELSE BatchReturn(FALSE, <<>>, ErrPanicked, bt.cbs)
    /\ UNCHANGED <<disk, MATCH_INDEX, ing>>

\* lines 385-401: process the chunk's results, then the next chunk or return
BatchProcess ==
    /\ pc = "batch"
    /\ bt.spawned = Len(bt.batch_results)
    /\ bt.joined = Len(bt.batch_results)
    /\ LET total_matches == Len(op.match_ids)
           out == ProcessBatchResults(bt.batch_results, bt.results, bt.cbs,
                                      total_matches)
           next == bt.batch_start + 1
       IN IF out.failed
          THEN BatchReturn(FALSE, <<>>, out.err, out.cbs)
          ELSE IF next * op.batch_size >= total_matches
          THEN BatchReturn(TRUE, out.results, NoErr, out.cbs)
          ELSE /\ bt' = StartChunk([bt EXCEPT !.results = out.results,
                                              !.cbs = out.cbs],
                                   next,
                                   ChunkLen(total_matches, op.batch_size, next))
               /\ UNCHANGED <<pc, op, lk, ret>>
    /\ UNCHANGED <<disk, MATCH_INDEX, ing>>

\* ------------------------------------------------ a second calling thread
AuxCall(folder_path, match_id) ==
    /\ lk[Aux].pc = "idle"
    /\ lk' = [lk EXCEPT ![Aux] = StartLk(folder_path, match_id)]
    /\ UNCHANGED <<disk, MATCH_INDEX, pc, op, ing, bt, ret>>

AuxReturn ==
    /\ lk[Aux].pc = "done"
    /\ lk' = [lk EXCEPT ![Aux] = IdleLk]
    /\ UNCHANGED <<disk, MATCH_INDEX, pc, op, ing, bt, ret>>

\* ------------------------------------------------- the files change on disk
\* The program reads the directory tree anew at every fs::read_to_string and
\* WalkDir::new; between two calls of the program a file may be removed or
\* written.
RemoveFile(folder_path, i) ==
    /\ pc = "idle"
    /\ ret = NoRet
    /\ PathExists(disk, folder_path)
    /\ i \in 1..Len(disk[folder_path])
    /\ disk[folder_path][i] # Gone
    /\ disk' = [disk EXCEPT ![folder_path][i] = Gone]
    /\ UNCHANGED <<MATCH_INDEX, pc, op, ing, lk, bt, ret>>

\* a file is created at an empty position or its content is replaced
WriteFile(folder_path, i, content) ==
    /\ pc = "idle"
    /\ ret = NoRet
    /\ PathExists(disk, folder_path)
    /\ i \in 1..Len(disk[folder_path])
    /\ content \in Contents
    /\ disk[folder_path][i] # content
    /\ disk' = [disk EXCEPT ![folder_path][i] = content]
    /\ UNCHANGED <<MATCH_INDEX, pc, op, ing, lk, bt, ret>>

\* ----------------------------------------------------------- specifications
Lookers == {Main} \cup Units

Next ==
    \/ Deliver
    \/ \E r \in Roots : LoadWithProgressCall(r)
    \/ \E r \in Roots : LoadJsonFilesCall(r)
    \/ IngestFile
    \/ LoadWithProgressReturn
    \/ LoadBuildIndex
    \/ LoadDropOld
    \/ LoadWriteNew
    \/ \E r \in Roots, m \in Ids : GetMatchCall(r, m)
    \/ \E t \in Lookers : LookupIndex(t)
    \/ \E t \in Lookers : LookupFinish(t)
    \/ GetMatchReturn
    \/ \E u \in Units : UnitPanic(u)
    \/ \E r \in Roots, ids \in SeqsUpTo(MaxIds, Ids), b \in 1..MaxBatch :
          BatchCall(r, ids, b)
    \/ BatchSpawn
    \/ BatchJoin
    \/ BatchProcess

Spec == Init /\ [][Next]_vars

\* The calling thread runs its call to the end and every unit that was
\* spawned is scheduled until it returns or faults.
Fairness ==
    /\ WF_vars(BatchSpawn)
    /\ WF_vars(BatchJoin)
    /\ WF_vars(BatchProcess)
    /\ \A u \in Units : WF_vars(LookupIndex(u) \/ LookupFinish(u) \/ UnitPanic(u))

\* index builds and batch calls
NextFair ==
    \/ Deliver
    \/ \E r \in Roots : LoadJsonFilesCall(r)
    \/ IngestFile
    \/ LoadBuildIndex
    \/ LoadDropOld
    \/ LoadWriteNew
    \/ \E u \in Units : LookupIndex(u)
    \/ \E u \in Units : LookupFinish(u)
    \/ \E u \in Units : UnitPanic(u)
    \/ \E r \in Roots, ids \in SeqsUpTo(MaxIds, Ids), b \in 1..MaxBatch :
          BatchCall(r, ids, b)
    \/ BatchSpawn
    \/ BatchJoin
    \/ BatchProcess

\* directory trees with which a lookup succeeds, finds nothing or has no root
DisksFair ==
    {[r \in Roots |-> IF r = "rA" THEN a ELSE b] :
        a \in {<<>>, <<"m1">>, <<"m1", Bad>>, <<"m2", "m1">>},
        b \in {NoDir, <<"m1">>}}

InitFair == disk \in DisksFair /\ InitRest

SpecFair == InitFair /\ [][NextFair]_vars /\ Fairness

\* every operation of the calling thread, with fair scheduling, over the
\* directory trees of DisksFair
SpecRoundTrip == InitFair /\ [][Next]_vars /\ Fairness

\* load_json_files on the calling thread while a second thread looks up
NextRace ==
    \/ Deliver
    \/ \E r \in Roots : LoadJsonFilesCall(r)
    \/ IngestFile
    \/ LoadBuildIndex
    \/ LoadDropOld
    \/ LoadWriteNew
    \/ \E r \in Roots, m \in Ids : AuxCall(r, m)
    \/ LookupIndex(Aux)
    \/ LookupFinish(Aux)
    \/ AuxReturn

SpecRace == Init /\ [][NextRace]_vars

\* index builds and single lookups on the calling thread while the files
\* change on disk
NextDisk ==
    \/ Deliver
    \/ \E r \in Roots : LoadJsonFilesCall(r)
    \/ IngestFile
    \/ LoadBuildIndex
    \/ LoadDropOld
    \/ LoadWriteNew
    \/ \E r \in Roots, m \in Ids : GetMatchCall(r, m)
    \/ LookupIndex(Main)
    \/ LookupFinish(Main)
    \/ GetMatchReturn
    \/ \E r \in Roots, i \in 1..MaxFiles : RemoveFile(r, i)
    \/ \E r \in Roots, i \in 1..MaxFiles, c \in Contents : WriteFile(r, i, c)

SpecDisk == Init /\ [][NextDisk]_vars

\* load_json_files_with_progress over directories large enough for every
\* arm of the progress condition
BigKinds == {"good", "bad", "mixed"}
BigFile(kind, i) ==
    IF kind = "good" THEN "m1"
    ELSE IF kind = "bad" THEN Bad
    ELSE IF i % 3 = 0 THEN "m1"
    ELSE IF i % 3 = 1 THEN "m2"
    ELSE Bad
BigDisks ==
    {[r \in Roots |-> IF r = "rA" THEN [i \in 1..n |-> BigFile(kind, i)] ELSE NoDir] :
        n \in 0..MaxBig, kind \in BigKinds}

InitIngest == disk \in BigDisks /\ InitRest

NextIngest ==
    \/ Deliver
    \/ \E r \in Roots : LoadWithProgressCall(r)
    \/ IngestFile
    \/ LoadWithProgressReturn

SpecIngest == InitIngest /\ [][NextIngest]_vars

\* ------------------------------------------------------ record transformer
\* parse_match_summary and parse_match_detail in full.  Option<T> is <<>> for
\* None and <<v>> for Some(v).  A path is the set of region tokens its string
\* contains.  Instants and epoch milliseconds are counted in units of 10^9 ms,
\* which keeps the range of chrono's DateTime<Utc> within TLC's integers.
RegionTokens == {"AMERICAS", "EMEA", "PACIFIC", "CHINA"}

extract_region_from_path(path) ==
    IF "AMERICAS" \in path THEN "AMERICAS"
    ELSE IF "EMEA" \in path THEN "EMEA"
    ELSE IF "PACIFIC" \in path THEN "PACIFIC"
    ELSE IF "CHINA" \in path THEN "CHINA"
    ELSE "UNKNOWN"

get_weapon_map ==
    ("E336C6B8-418D-9340-D77F-7A9E4CFE0702" :> "Vandal") @@
    ("9C82E19D-4575-0200-1A81-3EACF00CF872" :> "Vandal") @@
    ("1BAA85B4-4C70-1284-64BB-6481DFC3BB4E" :> "Vandal") @@
    ("EE8E8D15-496B-07AC-E5F6-8FAE5D4C7B1A" :> "Phantom") @@
    ("AE3DE142-4D85-2547-DD26-4E90BED35CF7" :> "Phantom") @@
    ("C4883E50-4494-202C-3EC3-6B8A9284F00B" :> "Bulldog") @@
    ("AE3DE142-4D85-2547-DD26-4E90BED35A7B" :> "Guardian") @@
    ("A03B24D3-4319-996D-0F8C-94BBFBA1DFC7" :> "Operator") @@
    ("4ECE3B7E-4BC3-8EB9-E9AD-6DB6EF4D3F9C" :> "Operator") @@
    ("C14908BC-4EF5-ACB9-7B8E-421BD7B8CB6C" :> "Marshal") @@
    ("F7E1B454-4AD4-1063-EC0A-159E56B58941" :> "Stinger") @@
    ("462080D1-4035-2937-7C09-27AA2A5C27A7" :> "Spectre") @@
    ("910BE174-449B-C412-AB22-D0873436B21B" :> "Bucky") @@
    ("EC845BF4-4F79-DDDA-A3DA-0DB3774B2794" :> "Judge") @@
    ("63E6C2B6-4A8E-869C-3D4C-E38355226584" :> "Ares") @@
    ("4EBC1E9F-4EE7-2E0F-F6A6-4E56F38044C2" :> "Odin") @@
    ("29A0CFAB-485B-F5D5-779A-B59F85E204A8" :> "Classic") @@
    ("42DA8CCC-40D5-AFFC-BEEC-15AA47B42EDA" :> "Shorty") @@
    ("44D4E95C-4157-0037-81B2-17841BF2E8E3" :> "Frenzy") @@
    ("E370FA57-4757-3604-3648-499A3F21CC59" :> "Sheriff") @@
    ("2F59173C-4BED-B6C3-2191-DEA9B58E9CF7" :> "Knife") @@
    ("5F0AAF7A-4289-3998-D5FF-EB9A5CF7EF5C" :> "Melee") @@
    ("4ADE7FAA-4CF1-8376-95EF-39884480959B" :> "Ability")

\* lines 80-84: the weapon name of a kill
weapon_name(kill) ==
    IF kill.finishing_damage = <<>> THEN <<>>
    ELSE IF kill.finishing_damage[1].damage_item = <<>> THEN <<>>
    ELSE IF kill.finishing_damage[1].damage_item[1] \in DOMAIN get_weapon_map
    THEN <<get_weapon_map[kill.finishing_damage[1].damage_item[1]]>>
    ELSE <<>>

Origin == [x |-> 0, y |-> 0]

\* lines 93-97: the location of the first snapshot entry of the killer
\* faulty variant: the last entry of the killer is taken
RECURSIVE killer_loc_last(_, _)
killer_loc_last(player_locations, killer) ==
    IF player_locations = <<>> THEN Origin
    ELSE IF player_locations[Len(player_locations)].puuid = killer
    THEN player_locations[Len(player_locations)].location
    ELSE killer_loc_last(SubSeq(player_locations, 1, Len(player_locations) - 1),
                         killer)
RECURSIVE killer_loc(_, _)
killer_loc(player_locations, killer) ==
    IF player_locations = <<>> THEN Origin
    ELSE IF Head(player_locations).puuid = killer
    THEN Head(player_locations).location
    ELSE killer_loc(Tail(player_locations), killer)

\* lines 78-108: the loop over the kills of one player of one round
RECURSIVE KillsLoop(_, _, _)
KillsLoop(kills, round_num, kill_events) ==
    IF kills = <<>> THEN kill_events
    ELSE LET kill == Head(kills)
         IN KillsLoop(Tail(kills), round_num,
               IF kill.victim_location = <<>> THEN kill_events
               ELSE Append(kill_events,
                      [killer_puuid |-> kill.killer,
                       victim_puuid |-> kill.victim,
                       weapon |-> weapon_name(kill),
                       killer_location |-> killer_loc(kill.player_locations,
                                                      kill.killer),
                       victim_location |-> kill.victim_location[1],
                       round_num |-> round_num,
                       round_time_millis |-> kill.time_since_round_start_millis]))

\* lines 77-109: the loop over the players of one round
RECURSIVE PlayersLoop(_, _, _)
PlayersLoop(player_stats, round_num, kill_events) ==
    IF player_stats = <<>> THEN kill_events
    ELSE PlayersLoop(Tail(player_stats), round_num,
                     KillsLoop(Head(player_stats).kills, round_num, kill_events))

\* lines 74-110: the loop over the rounds
RECURSIVE RoundsLoop(_, _)
RoundsLoop(round_results, kill_events) ==
    IF round_results = <<>> THEN kill_events
    ELSE RoundsLoop(Tail(round_results),
                    PlayersLoop(Head(round_results).player_stats,
                                Head(round_results).round_num, kill_events))

extract_kill_events(round_results) == RoundsLoop(round_results, <<>>)

\* lines 120-127: the distinct Blue/Red team labels in first-seen order
RECURSIVE TeamsLoop(_, _)
TeamsLoop(players, teams) ==
    IF players = <<>> THEN teams
    ELSE LET team_id == Head(players).team_id
             seen == \E k \in 1..Len(teams) : teams[k] = team_id
         IN TeamsLoop(Tail(players),
                      IF (team_id = "Blue" \/ team_id = "Red") /\ ~seen
                      THEN Append(teams, team_id) ELSE teams)

\* lines 130-138: team_wins, a map from team label to i32
\* faulty variant: a win stores 1 instead of adding 1
RECURSIVE TeamWinsReset(_, _)
TeamWinsReset(round_results, team_wins) ==
    IF round_results = <<>> THEN team_wins
    ELSE LET winning_team == Head(round_results).winning_team
         IN TeamWinsReset(Tail(round_results),
               IF winning_team = <<>> THEN team_wins
               ELSE IF winning_team[1] \in DOMAIN team_wins
               THEN [team_wins EXCEPT ![winning_team[1]] = 1]
               ELSE (winning_team[1] :> 1) @@ team_wins)
RECURSIVE TeamWins(_, _)
TeamWins(round_results, team_wins) ==
    IF round_results = <<>> THEN team_wins
    ELSE LET winning_team == Head(round_results).winning_team
         IN TeamWins(Tail(round_results),
               IF winning_team = <<>> THEN team_wins
               ELSE IF winning_team[1] \in DOMAIN team_wins
               THEN [team_wins EXCEPT ![winning_team[1]] = @ + 1]
               ELSE (winning_team[1] :> 1) @@ team_wins)

\* get(..).unwrap_or(&0)
GetOr0(team_wins, team) == IF team \in DOMAIN team_wins THEN team_wins[team] ELSE 0

\* lines 140-144: format!("{}-{}", ..)
score(round_results) ==
    LET team_wins == TeamWins(round_results, ("Blue" :> 0) @@ ("Red" :> 0))
    IN ToString(GetOr0(team_wins, "Blue")) \o "-" \o ToString(GetOr0(team_wins, "Red"))

\* Utc.timestamp_millis_opt(..).single(): chrono represents the instants of
\* the years -262143 .. 262142 and returns nothing outside of them
InChronoRange(game_start_millis) ==
    game_start_millis >= -8334601 /\ game_start_millis <= 8210266

\* lines 146-148 and 191-193; now is the value Utc::now() returns
\* faulty variant: the start is always the time of the call
game_start_now(game_start_millis, now) == now
game_start(game_start_millis, now) ==
    IF InChronoRange(game_start_millis) THEN game_start_millis ELSE now

\* unwrap_or(0) of an optional statistic of an optional stats block
StatOr0(stats, field) ==
    IF stats = <<>> THEN 0
    ELSE IF stats[1][field] = <<>> THEN 0
    ELSE stats[1][field][1]

\* lines 165-186
PlayerStatsOf(player) ==
    [puuid |-> player.puuid,
     game_name |-> player.game_name,
     tag_line |-> player.tag_line,
     agent |-> player.character_id,
     team |-> player.team_id,
     team_id |-> player.team_id,
     score |-> StatOr0(player.stats, "score"),
     kills |-> StatOr0(player.stats, "kills"),
     deaths |-> StatOr0(player.stats, "deaths"),
     assists |-> StatOr0(player.stats, "assists"),
     rounds_played |-> StatOr0(player.stats, "rounds_played"),
     is_observer |-> (player.team_id # "Blue" /\ player.team_id # "Red")]

\* parse_match_summary, every field
MatchSummaryOf(path, data, now) ==
    [match_id |-> data.match_info.match_id,
     map |-> data.match_info.map,
     region |-> extract_region_from_path(path),
     game_start |-> game_start(data.match_info.game_start_millis, now),
     teams |-> TeamsLoop(data.players, <<>>),
     score |-> score(data.round_results)]

\* parse_match_detail, every field
MatchDetailOf(path, data, now) ==
    [match_id |-> data.match_info.match_id,
     map |-> data.match_info.map,
     region |-> extract_region_from_path(path),
     game_start |-> game_start(data.match_info.game_start_millis, now),
     game_length_millis |-> data.match_info.game_length_millis,
     rounds_played |-> Len(data.round_results),
     winning_team |-> "Unknown",
     players |-> [k \in 1..Len(data.players) |-> PlayerStatsOf(data.players[k])],
     kill_events |-> extract_kill_events(data.round_results)]

\* ---------------------------------------- the transformer's inputs and calls
Loc(x, y) == [x |-> x, y |-> y]
PlayerLocation(puuid, x, y) == [puuid |-> puuid, location |-> Loc(x, y)]

\* kill records: with and without a victim location, a weapon or a snapshot
\* entry of the killer
KillRecords ==
    {[killer |-> "p1", victim |-> "p2",
      finishing_damage |->
          <<[damage_item |-> <<"E336C6B8-418D-9340-D77F-7A9E4CFE0702">>]>>,
      killer_location |-> <<>>, victim_location |-> <<Loc(5, 5)>>,
      time_since_round_start_millis |-> 100,
      player_locations |-> <<PlayerLocation("p2", 1, 1), PlayerLocation("p1", 2, 2),
                             PlayerLocation("p1", 3, 3)>>],
     [killer |-> "p1", victim |-> "p2", finishing_damage |-> <<>>,
      killer_location |-> <<>>, victim_location |-> <<>>,
      time_since_round_start_millis |-> 200,
      player_locations |-> <<PlayerLocation("p1", 2, 2)>>],
     [killer |-> "p2", victim |-> "p1",
      finishing_damage |-> <<[damage_item |-> <<>>]>>,
      killer_location |-> <<Loc(9, 9)>>, victim_location |-> <<Loc(7, 7)>>,
      time_since_round_start_millis |-> 300,
      player_locations |-> <<PlayerLocation("p1", 4, 4)>>],
     [killer |-> "p2", victim |-> "p1",
      finishing_damage |-> <<[damage_item |-> <<"no-such-weapon">>]>>,
      killer_location |-> <<>>, victim_location |-> <<Loc(8, 8)>>,
      time_since_round_start_millis |-> 400,
      player_locations |-> <<>>]}

Stats(score_, kills) ==
    <<[score |-> score_, kills |-> kills, deaths |-> <<1>>, assists |-> <<>>,
       rounds_played |-> <<2>>]>>
VctPlayer(puuid, team_id, stats) ==
    [puuid |-> puuid, game_name |-> puuid, tag_line |-> "tag",
     character_id |-> <<>>, team_id |-> team_id, stats |-> stats]

BaseDoc ==
    [match_info |-> [match_id |-> "m1", map |-> "Ascent",
                     game_start_millis |-> 1700, game_length_millis |-> 2],
     players |-> <<VctPlayer("p1", "Red", Stats(<<10>>, <<>>)),
                   VctPlayer("p2", "Neutral", <<>>),
                   VctPlayer("p3", "Blue", Stats(<<>>, <<3>>)),
                   VctPlayer("p4", "Red", <<>>)>>,
     round_results |-> <<>>]

\* start epochs inside and outside of chrono's range
StartMillis == {0, 1700, -8334700, 8210300}
DocsStart ==
    {[BaseDoc EXCEPT !.match_info.match_id = id, !.match_info.game_start_millis = g] :
        id \in Ids, g \in StartMillis}

MaxRounds == 3     \* rounds of a document whose winners vary
Winners == {<<>>, <<"Blue">>, <<"Red">>, <<"Draw">>, <<"blue">>}
DocsWinners ==
    {[BaseDoc EXCEPT !.round_results =
          [k \in 1..Len(w) |->
              [round_num |-> k - 1, winning_team |-> w[k], player_stats |-> <<>>]]] :
        w \in SeqsUpTo(MaxRounds, Winners)}

MaxKills == 2      \* kill records of a document whose kills vary
\* a kill record placed with player q of round r
Placed == {<<r, q, kill>> : r \in 1..2, q \in 1..2, kill \in KillRecords}
KillsAt(placed, r, q) ==
    LET Here(k) == k[1] = r /\ k[2] = q
        here == SelectSeq(placed, Here)
    IN [k \in 1..Len(here) |-> here[k][3]]
DocsKills ==
    {[BaseDoc EXCEPT !.round_results =
          [r \in 1..2 |->
              [round_num |-> r - 1, winning_team |-> <<>>,
               player_stats |->
                   [q \in 1..2 |-> [puuid |-> "p1", kills |-> KillsAt(placed, r, q)]]]]] :
        placed \in SeqsUpTo(MaxKills, Placed)}

\* the instants Utc::now() returns to the calls
Moments == {1793, 1794}

TransformInputs ==
    {[name |-> "transform", path |-> path, data |-> data] :
        path \in SUBSET RegionTokens, data \in DocsStart}
    \cup {[name |-> "transform", path |-> {"EMEA"}, data |-> data] :
            data \in DocsWinners \cup DocsKills}

InitTransform ==
    /\ disk = [r \in Roots |-> NoDir]
    /\ MATCH_INDEX = IndexNone
    /\ pc = "idle"
    /\ op \in TransformInputs
    /\ ing = NoIng
    /\ lk = [t \in Threads |-> IdleLk]
    /\ bt = NoBt
    /\ ret = [summaries |-> <<>>, details |-> <<>>]

\* parse_match_summary(path, data) is called; the model follows two calls
ParseMatchSummary ==
    /\ op.name = "transform"
    /\ Len(ret.summaries) < 2
    /\ \E now \in Moments :
          ret' = [ret EXCEPT !.summaries =
                      Append(@, MatchSummaryOf(op.path, op.data, now))]
    /\ UNCHANGED <<disk, MATCH_INDEX, pc, op, ing, lk, bt>>

\* parse_match_detail(path, data) is called; the model follows two calls
ParseMatchDetail ==
    /\ op.name = "transform"
    /\ Len(ret.details) < 2
    /\ \E now \in Moments :
          ret' = [ret EXCEPT !.details =
                      Append(@, MatchDetailOf(op.path, op.data, now))]
    /\ UNCHANGED <<disk, MATCH_INDEX, pc, op, ing, lk, bt>>

NextTransform == ParseMatchSummary \/ ParseMatchDetail

SpecTransform == InitTransform /\ [][NextTransform]_vars

\* ------------------------------------------------------------------ claims
IsBatch(r) == r.op.name = "get_multiple_match_details_batched"
IsGetMatch(r) == r.op.name = "get_match_by_id"
IsWithProgress(r) == r.op.name = "load_json_files_with_progress"

\* the chunk a global index belongs to
ChunkOf(global_index, batch_size) == global_index \div batch_size

\* C1: a successful batch call returns |ids| details, the i-th being the one
\* the unit for ids[i] returned, whatever order the units completed in.
C1_ResultOrder ==
    (IsBatch(ret) /\ ret.ok) =>
        /\ Len(ret.list) = Len(ret.op.match_ids)
        /\ \A i \in 1..Len(ret.op.match_ids) :
              /\ ret.fetched[i].pc = "done"
              /\ ret.fetched[i].match_id = ret.op.match_ids[i]
              /\ ret.fetched[i].res.ok
              /\ ret.list[i] = ret.fetched[i].res.detail

\* a successful call over two different matches whose second unit completed
\* before its first
C1_Witness ==
    /\ IsBatch(ret) /\ ret.ok
    /\ Len(ret.list) = 2
    /\ ret.list[1] # ret.list[2]
    /\ ret.overtaken

\* C2: during a batch call at most batch_size units are launched and not
\* finished, and a unit of a chunk is launched only after every unit of the
\* earlier chunks has been joined and their results appended.
C2_BoundedParallelism ==
    pc = "batch" =>
        /\ Cardinality({u \in Units : Running(lk[u])}) <= op.batch_size
        /\ \A i \in 0..(MaxIds - 1) :
              lk[Unit(i)].pc # "idle" =>
                LET first == ChunkOf(i, op.batch_size) * op.batch_size
                IN /\ first <= bt.batch_start * op.batch_size
                   /\ Len(bt.results) >= first
                   /\ \A j \in 0..(first - 1) :
                         /\ lk[Unit(j)].pc = "done"
                         /\ bt.results[j + 1] = lk[Unit(j)].res.detail

\* a unit of the second chunk runs
C2_Witness ==
    /\ pc = "batch"
    /\ bt.batch_start = 1
    /\ \E u \in Units : Running(lk[u]) /\ ChunkOf(u[2], op.batch_size) = 1

\* C3: a lookup that runs while load_json_files rebuilds the index observes
\* the complete old map or the complete new one, never a released map.
C3_SnapshotOnly == \A t \in Threads : ~lk[t].ref.dangling

\* the summaries the scan order and the files' contents call for
GoodFiles(d, folder_path) ==
    LET Good(file_path) == d[file_path[1]][file_path[2]] \in Ids
    IN SelectSeq(WalkDir(d, folder_path), Good)
ExpectedSummaries(d, folder_path) ==
    [i \in 1..Len(GoodFiles(d, folder_path)) |->
        LET file_path == GoodFiles(d, folder_path)[i]
        IN [match_id |-> d[file_path[1]][file_path[2]], path |-> file_path]]

\* C4: load_json_files_with_progress fails only for a missing root; for an
\* existing root it returns one summary per readable, parseable candidate
\* file, in scan order, and none for the others.
C4_PartialSuccess ==
    IsWithProgress(ret) =>
        IF PathExists(disk, ret.op.folder_path)
        THEN ret.ok /\ ret.list = ExpectedSummaries(disk, ret.op.folder_path)
        ELSE ~ret.ok /\ ret.err = ErrFolder(ret.op.folder_path)

\* a call that skipped a file and kept another
C4_Witness ==
    /\ IsWithProgress(ret) /\ ret.ok
    /\ Len(ret.list) = 1
    /\ ret.total = 2
    /\ ret.list[1].path[2] = 2

\* no readable, parseable file under the root carries the identifier
NoFileCarries(d, folder_path, match_id) ==
    \A i \in 1..Len(d[folder_path]) : d[folder_path][i] # match_id

\* C5: get_match_by_id returns a detail or an error naming the identifier;
\* when no readable, parseable file under the root carries the identifier it
\* fails with the not-found error, in every state of the index.  (Roots that
\* do not exist are the subject of C7 and are left out here.)
C5_ResultOrErrorNamingId ==
    (IsGetMatch(ret) /\ PathExists(disk, ret.op.folder_path)) =>
        /\ ret.ok \/ ret.err.arg = ret.op.match_id
        /\ NoFileCarries(disk, ret.op.folder_path, ret.op.match_id) =>
              (~ret.ok /\ ret.err = ErrNotFound(ret.op.match_id))

\* the units of a returned batch call that failed: they returned an error or
\* faulted
Failing(r) ==
    {i \in 1..Len(r.fetched) :
        \/ r.fetched[i].pc = "done" /\ ~r.fetched[i].res.ok
        \/ r.fetched[i].pc = "panicked"}
ErrorOf(r, i) ==
    IF r.fetched[i].pc = "panicked" THEN ErrPanicked
    ELSE ErrFailed(r.fetched[i].res.err)
SomeNotFound(r) ==
    \E i \in 1..Len(r.fetched) :
        /\ r.fetched[i].pc = "done"
        /\ r.fetched[i].res.err.kind = "Match not found with ID"
\* no unit of a chunk after the chunk of position i was launched
NoLaterChunk(r, i) ==
    \A j \in 1..Len(r.fetched) :
        ChunkOf(j - 1, r.op.batch_size) > ChunkOf(i - 1, r.op.batch_size)
            => r.fetched[j].pc = "idle"
\* a unit of the chunk of position i faulted
ChunkFaulted(r, i) ==
    \E j \in 1..Len(r.fetched) :
        /\ ChunkOf(j - 1, r.op.batch_size) = ChunkOf(i - 1, r.op.batch_size)
        /\ r.fetched[j].pc = "panicked"

\* C6 as stated: if an identifier of a batch call resolves to not-found the
\* call returns an error and no list, the error is the one of the first
\* failing identifier in input order, and no later chunk is launched.
C6_FirstErrorAborts ==
    (IsBatch(ret) /\ SomeNotFound(ret)) =>
        /\ ~ret.ok
        /\ ret.list = <<>>
        /\ ret.err = ErrorOf(ret, Min(Failing(ret)))
        /\ NoLaterChunk(ret, Min(Failing(ret)))

\* C6 amended: ... the error is the one of the first failing identifier in
\* input order unless a unit of the same chunk faulted, and then it is the
\* execution-fault error.
C6_FirstErrorAbortsUnlessFault ==
    (IsBatch(ret) /\ SomeNotFound(ret)) =>
        /\ ~ret.ok
        /\ ret.list = <<>>
        /\ ret.err = IF ChunkFaulted(ret, Min(Failing(ret))) THEN ErrPanicked
                      ELSE ErrorOf(ret, Min(Failing(ret)))
        /\ NoLaterChunk(ret, Min(Failing(ret)))

\* a call that reported its first identifier as not found and never launched
\* the chunk of its second
C6_Witness ==
    /\ IsBatch(ret)
    /\ Len(ret.fetched) = 2
    /\ ret.err = ErrFailed(ErrNotFound(ret.op.match_ids[1]))
    /\ ret.fetched[2].pc = "idle"

\* C7: every operation given a root that does not exist fails with the
\* root-path error, in every state of the index.  (The batch's wrapped form
\* of the error counts as the root-path error; a batch of no identifiers and
\* a batch with a faulted unit are left out.)
C7_MissingRootFails ==
    (ret.op.name # "" /\ ~PathExists(disk, ret.op.folder_path)
        /\ ~(IsBatch(ret) /\ ret.op.match_ids = <<>>)
        /\ ~(IsBatch(ret) /\ ret.err = ErrPanicked)) =>
        /\ ~ret.ok
        /\ ret.err \in {ErrFolder(ret.op.folder_path),
                         ErrFailed(ErrFolder(ret.op.folder_path))}

\* a root whose readable, parseable files carry pairwise different identifiers
UniqueIds(d, folder_path) ==
    \A i, j \in 1..Len(d[folder_path]) :
        (d[folder_path][i] \in Ids /\ d[folder_path][i] = d[folder_path][j])
            => i = j

\* C8: the index is purely a cache: get_match_by_id returns what the fallback
\* scan of the root alone returns, in every index state.  (Stated for roots
\* without duplicate identifiers, which the index and the scan resolve
\* differently.)
C8_IndexIsCache ==
    (IsGetMatch(ret) /\ \A r \in Roots : PathExists(disk, r) => UniqueIds(disk, r)) =>
        [ok |-> ret.ok, detail |-> ret.detail, err |-> ret.err]
            = FallbackScan(disk, ret.op.folder_path, ret.op.match_id)

\* the processed counts after which the claim has the callback invoked
Reported(processed, total_files) ==
    {p \in 1..processed : p = 1 \/ p % 10 = 0 \/ p = total_files}

ProgressAsClaimed(cbs, processed, total_files) ==
    /\ \A k \in 1..Len(cbs) :
          cbs[k][1] \in Reported(processed, total_files) /\ cbs[k][2] = total_files
    /\ \A p \in Reported(processed, total_files) :
          Cardinality({k \in 1..Len(cbs) : cbs[k][1] = p}) = 1
    /\ \A k \in 1..(Len(cbs) - 1) : cbs[k][1] < cbs[k + 1][1]

\* C9: the ingestion invokes the progress callback after the p-th processed
\* file exactly when p = 1, p is a multiple of 10 or p = total, once, with
\* (p, total); the p are increasing and the last invocation is (total, total).
C9_IngestProgress ==
    /\ pc = "ingest" =>
          ProgressAsClaimed(ing.cbs, ing.processed, Len(ing.all_files))
    /\ (IsWithProgress(ret) /\ ret.ok) =>
          /\ ProgressAsClaimed(ret.cbs, ret.total, ret.total)
          /\ ret.total >= 1 => ret.cbs[Len(ret.cbs)] = <<ret.total, ret.total>>

\* a call over more than ten files, some of which failed, has returned
C9_Witness ==
    /\ IsWithProgress(ret) /\ ret.ok
    /\ ret.total > 10
    /\ Len(ret.list) \in 1..(ret.total - 1)
    /\ Len(ret.cbs) = 3

\* C10: a successful batch call over n identifiers invokes the callback n
\* times, with (1,n), ..., (n,n) in this order, and the invocation for an item
\* happens only after every unit of the item's chunk has completed.
C10_BatchProgress ==
    /\ (IsBatch(ret) /\ ret.ok) =>
          ret.cbs = [i \in 1..Len(ret.op.match_ids) |-> <<i, Len(ret.op.match_ids)>>]
    /\ pc = "batch" =>
          \A p \in 1..Len(bt.cbs) : \A i \in 0..(Len(op.match_ids) - 1) :
              ChunkOf(i, op.batch_size) = ChunkOf(p - 1, op.batch_size)
                  => lk[Unit(i)].pc = "done"

\* a successful call over two chunks has returned
C10_Witness ==
    /\ IsBatch(ret) /\ ret.ok
    /\ ret.op.batch_size = 1
    /\ ret.cbs = <<<<1, 2>>, <<2, 2>>>>

IsLoad(r) == r.op.name = "load_json_files"

\* the positions under the root whose file is readable, parseable and carries
\* the identifier
Carriers(d, folder_path, match_id) ==
    IF PathExists(d, folder_path)
    THEN {i \in 1..Len(d[folder_path]) : d[folder_path][i] = match_id}
    ELSE {}

\* C11: after load_json_files(root) returns success the index holds exactly
\* the identifiers carried by the readable, parseable files under root, each
\* mapped to a file under root that carries it, and nothing of an earlier
\* build.
C11_IndexExact ==
    (IsLoad(ret) /\ ret.ok) =>
        /\ MATCH_INDEX.some /\ MATCH_INDEX.live
        /\ \A id \in Ids :
              IF Carriers(disk, ret.op.folder_path, id) = {}
              THEN MATCH_INDEX.map[id] = NoPath
              ELSE /\ MATCH_INDEX.map[id][1] = ret.op.folder_path
                   /\ MATCH_INDEX.map[id][2]
                         \in Carriers(disk, ret.op.folder_path, id)

\* a rebuild for rA after one of its files was removed has returned: the
\* index holds the identifier of the file that is left and not the other
C11_Witness ==
    /\ IsLoad(ret) /\ ret.ok
    /\ ret.op.folder_path = "rA"
    /\ Len(disk["rA"]) = 2
    /\ disk["rA"][1] = Gone
    /\ disk["rA"][2] = "m2"
    /\ MATCH_INDEX.map["m1"] = NoPath
    /\ MATCH_INDEX.map["m2"] = <<"rA", 2>>

\* two records agree in every field but game_start
SameButStart(a, b) == [a EXCEPT !.game_start = 0] = [b EXCEPT !.game_start = 0]

\* C12 as stated: for every parseable document two invocations of
\* parse_match_summary, and two of parse_match_detail, with the same path and
\* document return records equal in every field, game_start included.
C12_Deterministic ==
    /\ \A i, j \in 1..Len(ret.summaries) : ret.summaries[i] = ret.summaries[j]
    /\ \A i, j \in 1..Len(ret.details) : ret.details[i] = ret.details[j]

\* C12 amended: the two records are equal in every field when chrono can
\* represent the document's start epoch; when it cannot they are equal in
\* every field but game_start, which is the time of each call.
C12_DeterministicForValidStart ==
    /\ \A i, j \in 1..Len(ret.summaries) :
          IF InChronoRange(op.data.match_info.game_start_millis)
          THEN ret.summaries[i] = ret.summaries[j]
          ELSE /\ SameButStart(ret.summaries[i], ret.summaries[j])
               /\ ret.summaries[i].game_start \in Moments
    /\ \A i, j \in 1..Len(ret.details) :
          IF InChronoRange(op.data.match_info.game_start_millis)
          THEN ret.details[i] = ret.details[j]
          ELSE /\ SameButStart(ret.details[i], ret.details[j])
               /\ ret.details[i].game_start \in Moments

\* both functions were called twice on a document with a representable start
\* and a path of two region tokens
C12_Witness ==
    /\ Len(ret.summaries) = 2
    /\ Len(ret.details) = 2
    /\ op.path = {"EMEA", "CHINA"}
    /\ ret.summaries[2].game_start = 1700
    /\ ret.details[2].region = "EMEA"

\* the number of rounds whose winning team is present and is exactly team
RoundsWonBy(round_results, team) ==
    Cardinality({k \in 1..Len(round_results) :
                    round_results[k].winning_team = <<team>>})

\* C13: the score string of a summary is "<b>-<r>", b the number of rounds
\* won by exactly "Blue" and r by exactly "Red"; rounds without a winner or
\* with another winner count for neither, and no rounds give "0-0".
C13_ScoreString ==
    \A i \in 1..Len(ret.summaries) :
        /\ ret.summaries[i].score =
              ToString(RoundsWonBy(op.data.round_results, "Blue")) \o "-"
                  \o ToString(RoundsWonBy(op.data.round_results, "Red"))
        /\ op.data.round_results = <<>> => ret.summaries[i].score = "0-0"

\* the summary of a document with two rounds won by Blue and one by another
\* label than Blue or Red
C13_Witness ==
    /\ Len(ret.summaries) = 1
    /\ Len(op.data.round_results) = 3
    /\ op.data.round_results[2].winning_team = <<"blue">>
    /\ ret.summaries[1].score = "2-0"

\* the kill records of a document that have a victim location, by position
\* <<round, player of the round, kill of the player>>
Located(round_results) ==
    {<<r, q, k>> \in UNION {UNION {{<<r2, q2, k2>> :
            k2 \in 1..Len(round_results[r2].player_stats[q2].kills)} :
            q2 \in 1..Len(round_results[r2].player_stats)} :
            r2 \in 1..Len(round_results)} :
        round_results[r].player_stats[q].kills[k].victim_location # <<>>}
Before(a, b) ==
    \/ a[1] < b[1]
    \/ a[1] = b[1] /\ a[2] < b[2]
    \/ a[1] = b[1] /\ a[2] = b[2] /\ a[3] < b[3]
\* the n-th of them in the order rounds, players, kills
NthLocated(round_results, n) ==
    CHOOSE a \in Located(round_results) :
        Cardinality({b \in Located(round_results) : Before(b, a)}) = n - 1
\* the location of the first snapshot entry of the killer, else (0,0)
FirstOfKiller(kill) ==
    LET hits == {j \in 1..Len(kill.player_locations) :
                    kill.player_locations[j].puuid = kill.killer}
    IN IF hits = {} THEN Loc(0, 0) ELSE kill.player_locations[Min(hits)].location

\* C14: extract_kill_events returns one event for each kill record with a
\* victim location and none for the others, in the order rounds, players of
\* the round, kills of the player; the killer location of an event is that of
\* the first snapshot entry of the killer, and (0,0) without such an entry.
C14_KillEvents ==
    \A i \in 1..Len(ret.details) :
        LET round_results == op.data.round_results
            kill_events == ret.details[i].kill_events
        IN /\ Len(kill_events) = Cardinality(Located(round_results))
           /\ \A n \in 1..Len(kill_events) :
                 LET a == NthLocated(round_results, n)
                     kill == round_results[a[1]].player_stats[a[2]].kills[a[3]]
                 IN /\ kill_events[n].round_num = round_results[a[1]].round_num
                    /\ kill_events[n].killer_puuid = kill.killer
                    /\ kill_events[n].victim_puuid = kill.victim
                    /\ kill_events[n].round_time_millis =
                          kill.time_since_round_start_millis
                    /\ kill_events[n].victim_location = kill.victim_location[1]
                    /\ kill_events[n].killer_location = FirstOfKiller(kill)

\* the detail of a document whose second round was given a kill without a
\* snapshot entry of the killer and whose first round a kill with two
\* entries of the killer: two events, the first round's first
C14_Witness ==
    /\ Len(ret.details) = 1
    /\ Len(op.data.round_results) = 2
    /\ Len(op.data.round_results[1].player_stats) = 2
    /\ Len(op.data.round_results[2].player_stats[1].kills) = 1
    /\ Len(op.data.round_results[1].player_stats[2].kills) = 1
    /\ Len(ret.details[1].kill_events) = 2
    /\ ret.details[1].kill_events[1].round_num = 0
    /\ ret.details[1].kill_events[1].killer_location = Loc(2, 2)
    /\ ret.details[1].kill_events[2].killer_location = Loc(0, 0)

\* a kill record without a victim location gave no event
C14_WitnessSkipped ==
    /\ Len(ret.details) = 1
    /\ Cardinality(Located(op.data.round_results)) = 1
    /\ Len(op.data.round_results) = 2
    /\ Len(op.data.round_results[1].player_stats) = 2
    /\ Len(op.data.round_results[1].player_stats[1].kills) = 2
    /\ Len(ret.details[1].kill_events) = 1

\* what the call returned, as a Result
ResultOf(r) == [ok |-> r.ok, detail |-> r.detail, err |-> r.err]

\* the detail of the first scanned file under the root that carries the
\* identifier if there is one, and the not-found error otherwise
FirstCarrierOrNotFound(d, folder_path, match_id) ==
    IF Carriers(d, folder_path, match_id) = {}
    THEN ErrRes(ErrNotFound(match_id))
    ELSE OkRes([match_id |-> match_id,
                path |-> <<folder_path, Min(Carriers(d, folder_path, match_id))>>])

\* the same for a root that exists, and the root-path error for one that
\* does not
ScanOrRootError(d, folder_path, match_id) ==
    IF PathExists(d, folder_path)
    THEN FirstCarrierOrNotFound(d, folder_path, match_id)
    ELSE ErrRes(ErrFolder(folder_path))

\* the index maps the identifier to a file that cannot be read or parsed
IndexedUnreadable(d, slot, match_id) ==
    /\ slot.some
    /\ slot.map[match_id] # NoPath
    /\ ReadAndParse(d, slot.map[match_id]) = ""

\* load_json_files stores the rebuilt index and returns
RebuildReturns == pc = "write" /\ pc' = "idle"

\* C15 as stated: when the index maps id to a file that can no longer be read
\* or parsed, get_match_by_id(root, id) returns the detail of the first
\* scanned file of root that carries id, or the not-found error; after the
\* index is rebuilt id is absent from it and the lookup returns the same.
\* (Stated for roots that exist: a lookup under a root that does not exist
\* has nothing to scan and is the subject of C7.)
C15_StaleEntryFallsBack ==
    /\ []((IsGetMatch(ret) /\ PathExists(disk, ret.op.folder_path)) =>
            /\ IndexedUnreadable(disk, MATCH_INDEX, ret.op.match_id) =>
                  ResultOf(ret) = FirstCarrierOrNotFound(disk, ret.op.folder_path,
                                                         ret.op.match_id)
            /\ (MATCH_INDEX.some /\ MATCH_INDEX.map[ret.op.match_id] = NoPath) =>
                  ResultOf(ret) = FirstCarrierOrNotFound(disk, ret.op.folder_path,
                                                         ret.op.match_id))
    /\ [][RebuildReturns =>
            \A id \in Ids : IndexedUnreadable(disk, MATCH_INDEX, id) =>
                MATCH_INDEX'.map[id] = NoPath]_vars

\* C15 amended: ... returns the root-path error if root does not exist, else
\* the detail of the first scanned file of root that carries id, or the
\* not-found error; after the index is rebuilt for a root, id is absent from
\* it unless a readable, parseable file under that root carries id (the index
\* then maps id to such a file), and when id is absent the lookup returns the
\* same as before.
C15_StaleEntryFallsBackOrRootError ==
    /\ [](IsGetMatch(ret) =>
            /\ IndexedUnreadable(disk, MATCH_INDEX, ret.op.match_id) =>
                  ResultOf(ret) = ScanOrRootError(disk, ret.op.folder_path,
                                                  ret.op.match_id)
            /\ (MATCH_INDEX.some /\ MATCH_INDEX.map[ret.op.match_id] = NoPath) =>
                  ResultOf(ret) = ScanOrRootError(disk, ret.op.folder_path,
                                                  ret.op.match_id))
    /\ [][RebuildReturns =>
            \A id \in Ids : IndexedUnreadable(disk, MATCH_INDEX, id) =>
                IF Carriers(disk, op.folder_path, id) = {}
                THEN MATCH_INDEX'.map[id] = NoPath
                ELSE /\ MATCH_INDEX'.map[id][1] = op.folder_path
                     /\ MATCH_INDEX'.map[id][2]
                           \in Carriers(disk, op.folder_path, id)]_vars

\* a lookup of m1 returned the detail of rA's first file while the index maps
\* m1 to rA's second file, which has been removed
C15_Witness ==
    /\ IsGetMatch(ret) /\ ret.ok
    /\ ret.op.folder_path = "rA"
    /\ ret.op.match_id = "m1"
    /\ MATCH_INDEX.some
    /\ MATCH_INDEX.map["m1"] = <<"rA", 2>>
    /\ disk["rA"][2] = Gone
    /\ ret.detail.path = <<"rA", 1>>

\* C16: when several readable, parseable files under root carry the same
\* identifier, the index built by load_json_files(root) maps it to the last of
\* them in scan order, and the fallback scan of get_match_by_id (taken when
\* the index is not built, has no entry or has an entry that cannot be read)
\* returns the detail of the first of them.
C16_LastIndexedFirstScanned ==
    /\ (IsLoad(ret) /\ ret.ok) =>
          \A id \in Ids :
              Cardinality(Carriers(disk, ret.op.folder_path, id)) >= 2 =>
                  MATCH_INDEX.map[id] =
                      <<ret.op.folder_path, Max(Carriers(disk, ret.op.folder_path, id))>>
    /\ (/\ IsGetMatch(ret)
        /\ \/ ~MATCH_INDEX.some
           \/ MATCH_INDEX.map[ret.op.match_id] = NoPath
           \/ IndexedUnreadable(disk, MATCH_INDEX, ret.op.match_id)
        /\ Cardinality(Carriers(disk, ret.op.folder_path, ret.op.match_id)) >= 2) =>
          /\ ret.ok
          /\ ret.detail.match_id = ret.op.match_id
          /\ ret.detail.path =
                <<ret.op.folder_path,
                  Min(Carriers(disk, ret.op.folder_path, ret.op.match_id))>>

\* load_json_files(rA) returned with both files of rA carrying m1: the index
\* maps m1 to the second
C16_Witness ==
    /\ IsLoad(ret) /\ ret.ok
    /\ ret.op.folder_path = "rA"
    /\ disk["rA"] = <<"m1", "m1">>
    /\ MATCH_INDEX.map["m1"] = <<"rA", 2>>

\* the fallback scan returned the first of two files carrying m1
C16_WitnessScan ==
    /\ IsGetMatch(ret) /\ ret.ok
    /\ ~MATCH_INDEX.some
    /\ disk["rA"] = <<"m1", "m1">>
    /\ ret.detail.path = <<"rA", 1>>

\* the positions of a returned batch call whose unit faulted
Faulted(r) == {i \in 1..Len(r.fetched) : r.fetched[i].pc = "panicked"}

\* C17: if a unit of a batch call faults, the call returns the execution-fault
\* error, neither a not-found error nor a list; it invokes no progress
\* callback for an item of the faulting chunk and launches no later chunk.
C17_FaultAborts ==
    (IsBatch(ret) /\ Faulted(ret) # {}) =>
        LET first == ChunkOf(Min(Faulted(ret)) - 1, ret.op.batch_size)
                        * ret.op.batch_size
        IN /\ ~ret.ok
           /\ ret.err = ErrPanicked
           /\ ret.list = <<>>
           /\ ret.cbs = [k \in 1..first |-> <<k, Len(ret.op.match_ids)>>]
           /\ NoLaterChunk(ret, Min(Faulted(ret)))

\* a call in chunks of one whose first unit returned a detail and whose
\* second unit faulted
C17_Witness ==
    /\ IsBatch(ret)
    /\ ret.op.batch_size = 1
    /\ Len(ret.fetched) = 2
    /\ ret.fetched[1].res.ok
    /\ ret.fetched[2].pc = "panicked"
    /\ ret.err = ErrPanicked
    /\ ret.cbs = <<<<1, 2>>>>

\* C18: whenever get_multiple_match_details_batched returns, with success,
\* with a not-found error or with the execution-fault error, every unit it
\* launched has finished: none is still running after the call returned.
C18_NoUnitOutlivesCall ==
    IsBatch(ret) => \A i \in 1..Len(ret.fetched) : ~Running(ret.fetched[i])

\* the ways a batch call may end
EndsInSuccess(r) == r.ok /\ Len(r.list) = Len(r.op.match_ids) /\ r.err = NoErr
EndsInNotFound(r) ==
    /\ ~r.ok /\ r.list = <<>>
    /\ \E i \in 1..Len(r.op.match_ids) :
          r.err = ErrFailed(ErrNotFound(r.op.match_ids[i]))
EndsInFault(r) == ~r.ok /\ r.list = <<>> /\ r.err = ErrPanicked
EndsInRootError(r) ==
    ~r.ok /\ r.list = <<>> /\ r.err = ErrFailed(ErrFolder(r.op.folder_path))

\* an empty identifier list gives the empty list, no unit and no callback
EmptyBatchIsEmpty ==
    (IsBatch(ret) /\ ret.op.match_ids = <<>>) =>
        /\ ret.ok /\ ret.list = <<>> /\ ret.cbs = <<>>
        /\ \A u \in Units : lk[u].pc = "idle"

BatchReturns == (pc = "batch") ~> (pc = "idle" /\ IsBatch(ret))

\* C19 as stated: every batch call with batch_size >= 1 eventually returns
\* when its units finish or fault, in one of three outcomes: success with
\* |ids| details, a not-found error or the execution-fault error; for no
\* identifiers it returns the empty list without a unit or a callback.
C19_ReturnsInThreeWays ==
    /\ BatchReturns
    /\ [](IsBatch(ret) =>
            \/ EndsInSuccess(ret)
            \/ EndsInNotFound(ret)
            \/ EndsInFault(ret))
    /\ []EmptyBatchIsEmpty

\* C19 amended: ... in one of four outcomes: success with |ids| details, a
\* not-found error, the root-path error of a root that does not exist, or the
\* execution-fault error; ...
C19_ReturnsInFourWays ==
    /\ BatchReturns
    /\ [](IsBatch(ret) =>
            \/ EndsInSuccess(ret)
            \/ EndsInNotFound(ret)
            \/ EndsInRootError(ret)
            \/ EndsInFault(ret))
    /\ []EmptyBatchIsEmpty

\* a call over two identifiers under a root that does not exist has returned
\* the root-path error
C19_Witness ==
    /\ IsBatch(ret)
    /\ Len(ret.op.match_ids) = 2
    /\ ~PathExists(disk, ret.op.folder_path)
    /\ EndsInRootError(ret)

\* C20: whenever get_match_by_id(root, id) returns success, the identifier of
\* the returned detail is id, after any index builds and any changes of the
\* files since the last build.
C20_ReturnedIdIsRequested ==
    (IsGetMatch(ret) /\ ret.ok) => ret.detail.match_id = ret.op.match_id

\* C21: the Match Index is changed only by a load_json_files call that
\* returns success.  A step that changes MATCH_INDEX is a step of the calling
\* thread inside load_json_files, past the root check; a load_json_files call
\* past the root check returns success; and a step in which any call returns
\* a failure, or in which load_json_files_with_progress, get_match_by_id or
\* get_multiple_match_details_batched returns, or in which a unit of a batch
\* or a lookup moves, leaves MATCH_INDEX as it was.
C21_IndexFrame ==
    [][/\ MATCH_INDEX' # MATCH_INDEX =>
              /\ op.name = "load_json_files"
              /\ pc \in {"store", "write"}
       /\ (op.name = "load_json_files" /\ pc # "idle" /\ pc' = "idle") =>
              IsLoad(ret') /\ ret'.ok
       /\ (ret' # ret /\ ret' # NoRet /\ ~(IsLoad(ret') /\ ret'.ok)) =>
              MATCH_INDEX' = MATCH_INDEX
       /\ op.name # "load_json_files" => MATCH_INDEX' = MATCH_INDEX]_vars

\* with the index built for rA, a load_json_files call for a root that does
\* not exist has failed and the index still holds the entry of rA
C21_Witness ==
    /\ IsLoad(ret) /\ ~ret.ok
    /\ ret.err = ErrFolder(ret.op.folder_path)
    /\ MATCH_INDEX.some /\ MATCH_INDEX.live
    /\ MATCH_INDEX.map["m1"] = <<"rA", 1>>

\* with the index built, a batch call has failed and left the index in place
C21_WitnessBatch ==
    /\ IsBatch(ret) /\ ~ret.ok
    /\ MATCH_INDEX.some /\ MATCH_INDEX.live
    /\ MATCH_INDEX.map["m1"] # NoPath

\* the region tokens that the path string of a file contains (line 54): rA is
\* a data directory with one sub-folder per region, rB a folder whose path
\* names no region
path_str(file_path) ==
    IF file_path[1] = "rA"
    THEN IF file_path[2] = 1 THEN {"AMERICAS"}
         ELSE IF file_path[2] = 2 THEN {"EMEA"}
         ELSE IF file_path[2] = 3 THEN {"PACIFIC"}
         ELSE {"CHINA"}
    ELSE {}

\* data.match_info.map of the document that carries the identifier
MatchInfoMap(data) == IF data = "m1" THEN "Ascent" ELSE "Bind"

\* the identifier, map and region of a summary or detail parsed from the file
\* at x.path
Fields(x) ==
    [match_id |-> x.match_id,
     map |-> MatchInfoMap(x.match_id),
     region |-> extract_region_from_path(path_str(x.path))]

\* the summaries load_json_files and detail lookups can return
Summaries ==
    {[match_id |-> id, path |-> <<r, i>>] :
        id \in Ids, r \in Roots, i \in 1..MaxFiles}

Range(list) == {list[i] : i \in 1..Len(list)}

LoadReturned(folder_path) ==
    IsLoad(ret) /\ ret.ok /\ ret.op.folder_path = folder_path

\* a get_match_by_id(folder_path, s.match_id) call that has returned
\* succeeded with the identifier, map and region of s
RoundTrip(folder_path, s) ==
    (/\ IsGetMatch(ret)
     /\ ret.op.folder_path = folder_path
     /\ ret.op.match_id = s.match_id) =>
        ret.ok /\ Fields(ret.detail) = Fields(s)

\* a get_multiple_match_details(folder_path, ids) call (one chunk: the batch
\* size of line 408 exceeds the length of the lists here) that has returned
\* succeeded, unless a unit faulted
BatchTrip(folder_path, ids) ==
    (/\ IsBatch(ret)
     /\ ret.op.folder_path = folder_path
     /\ ret.op.match_ids = ids
     /\ ret.op.batch_size >= Len(ids)
     /\ Faulted(ret) = {}) =>
        ret.ok

\* C22: once load_json_files(root) has returned success, and with the files
\* never changing, every later get_match_by_id(root, s.match_id) for a summary
\* s that the call returned succeeds with a detail whose identifier, map and
\* region are those of s, and every later get_multiple_match_details over the
\* identifiers of the returned summaries succeeds.  (Stated for roots whose
\* files carry pairwise different identifiers, since one lookup by identifier
\* cannot answer for two summaries, and for batch calls without a faulted
\* unit.)
C22_RoundTrip ==
    /\ \A r \in Roots, s \in Summaries :
          []((LoadReturned(r) /\ UniqueIds(disk, r) /\ s \in Range(ret.list))
                => []RoundTrip(r, s))
    /\ \A r \in Roots, ids \in SeqsUpTo(MaxFiles, Ids) :
          []((/\ LoadReturned(r)
              /\ UniqueIds(disk, r)
              /\ ids = [i \in 1..Len(ret.list) |-> ret.list[i].match_id])
                => []BatchTrip(r, ids))

====
